---- MODULE Spec2Model ----
(***************************************************************************)
(* Model of packages/docutils/lib/nav.ts: updateNav reconciles the `nav`   *)
(* tree of mkdocs.yml with the Markdown files TypeDoc generated under      *)
(* <out>/commands.                                                         *)
(*                                                                         *)
(* Strings that are paths are modelled as the sequence of their segments   *)
(* (the string split at "/"), so "" is <<"">>, "ref/a.md" is               *)
(* <<"ref", "a.md">> and "/x.md" is <<"", "x.md">>.  Absolute directories  *)
(* are the sequence of their segments below the filesystem root.           *)
(***************************************************************************)
EXTENDS Integers, Sequences, FiniteSets, TLC

VARIABLES nav, commandDocFileEnts, mkDocsDocsDir, typeDocOutDir,
          noReferenceHeader, runs, navBefore, wrote, warned,
          twinNav, twinWrote

vars == <<nav, commandDocFileEnts, mkDocsDocsDir, typeDocOutDir,
          noReferenceHeader, runs, navBefore, wrote, warned,
          twinNav, twinWrote>>

----------------------------------------------------------------------------
(* Bounds of the model *)

MaxNav == 2

MaxRuns == 2

----------------------------------------------------------------------------
(* Values of the navigation tree *)

DEFAULT_REFERENCE_HEADER == "Reference"

referenceHeader == DEFAULT_REFERENCE_HEADER

\* a YAML string: a path
Str(p) == [type |-> "string", path |-> p, key |-> "", items |-> <<>>]

\* a YAML single-key mapping from a section title to a list of strings
Section(h, its) == [type |-> "object", path |-> <<>>, key |-> h, items |-> its]

isString(v) == v.type = "string"

isObject(v) == v.type = "object"

has(v, k) == v.key = k

----------------------------------------------------------------------------
(* node:path on POSIX, for normalized inputs *)

RECURSIVE CommonLen(_, _)
CommonLen(a, b) ==
  IF a = <<>> \/ b = <<>> \/ Head(a) # Head(b) THEN 0
  ELSE 1 + CommonLen(Tail(a), Tail(b))

Ups(n) == [i \in 1..n |-> ".."]

\* path.relative(from, to) of two absolute directories; "" when they are equal
PathRelative(from, to) ==
  LET k == CommonLen(from, to)
      r == Ups(Len(from) - k) \o SubSeq(to, k + 1, Len(to))
  IN IF r = <<>> THEN <<"">> ELSE r

\* path.join(dir, name) of a normalized relative dir and a plain file name
PathJoin(dir, name) == IF dir = <<"">> THEN <<name>> ELSE Append(dir, name)

\* _.startsWith(value, `${dir}/`); a non-string is stringified to
\* "[object Object]", which holds no "/"
startsWithDir(v, dir) ==
  /\ isString(v)
  /\ Len(v.path) > Len(dir)
  /\ SubSeq(v.path, 1, Len(dir)) = dir

----------------------------------------------------------------------------
(* lodash *)

RECURSIVE findIndexFrom(_, _, _)
findIndexFrom(arr, k, i) ==
  IF i > Len(arr) THEN -1
  ELSE IF isObject(arr[i]) /\ has(arr[i], k) THEN i - 1
  ELSE findIndexFrom(arr, k, i + 1)

findRefDictIndexLast(nv) ==
  LET hits == {i \in 1..Len(nv) : isObject(nv[i]) /\ has(nv[i], referenceHeader)}
  IN IF hits = {} THEN -1
     ELSE (CHOOSE i \in hits : \A j \in hits : j <= i) - 1
\* _.findIndex(nav, _.overEvery([_.isObject, v => _.has(v, referenceHeader)])):
\* the 0-based index of the first match, -1 when there is none
findRefDictIndex(nv) == findIndexFrom(nv, referenceHeader, 1)

RECURSIVE partitionFrom(_, _, _, _)
partitionFrom(arr, dir, i, acc) ==
  IF i > Len(arr) THEN acc
  ELSE partitionFrom(arr, dir, i + 1,
         IF startsWithDir(arr[i], dir)
         THEN <<Append(acc[1], arr[i]), acc[2]>>
         ELSE <<acc[1], Append(acc[2], arr[i])>>)

RECURSIVE partitionUnshift(_, _, _, _)
partitionUnshift(arr, dir, i, acc) ==
  IF i > Len(arr) THEN acc
  ELSE partitionUnshift(arr, dir, i + 1,
         IF startsWithDir(arr[i], dir)
         THEN <<<<arr[i]>> \o acc[1], acc[2]>>
         ELSE <<acc[1], <<arr[i]>> \o acc[2]>>)

partitionRefArrayUnshift(arr, dir) == partitionUnshift(arr, dir, 1, <<<<>>, <<>>>>)
\* _.partition(arr, v => _.startsWith(v, `${relReferenceDir}/`)):
\* <<the matching elements, the others>>, each in the order of arr
partitionRefArray(arr, dir) == partitionFrom(arr, dir, 1, <<<<>>, <<>>>>)

Includes(arr, v) == \E i \in 1..Len(arr) : arr[i] = v

\* _.difference(a, b): the elements of a that b does not hold, in order
difference(a, b) == SelectSeq(a, LAMBDA v : ~Includes(b, v))

RECURSIVE uniqFrom(_, _, _)
uniqFrom(arr, i, acc) ==
  IF i > Len(arr) THEN acc
  ELSE uniqFrom(arr, i + 1, IF Includes(acc, arr[i]) THEN acc ELSE Append(acc, arr[i]))

\* _.uniq(arr): the first occurrence of every element
uniq(arr) == uniqFrom(arr, 1, <<>>)

xorOneSided(a, b) == uniq(difference(a, b))
\* _.xor(a, b): uniq(flatten([difference(a, b), difference(b, a)]))
xor(a, b) == uniq(difference(a, b) \o difference(b, a))

\* _.overEvery(_.isArray, v => _.every(v, _.isString))
isStringArray(nv) == \A i \in 1..Len(nv) : isString(nv[i])

----------------------------------------------------------------------------
(* updateNav *)

\* ent.name.endsWith('.md'), by the table of the file names of the model
endsWithMd(name) == name \in {"a.md", "b.md", "img.md"}

relReferenceDir(docs, out) == PathRelative(docs, out)

commandDir(out) == Append(out, "commands")

relCommandDir(docs, out) == PathRelative(docs, commandDir(out))

RECURSIVE newRefFilepathsFrom(_, _, _, _)
newRefFilepathsFrom(ents, rel, i, acc) ==
  IF i > Len(ents) THEN acc
  ELSE newRefFilepathsFrom(ents, rel, i + 1,
         IF ents[i].isFile /\ endsWithMd(ents[i].name)
         THEN Append(acc, Str(PathJoin(rel, ents[i].name)))
         ELSE acc)

\* the loop over the directory entries
newRefFilepaths(ents, docs, out) ==
  newRefFilepathsFrom(ents, relCommandDir(docs, out), 1, <<>>)

navUsesHeadersAlways(noHdr, nv) == TRUE
navUsesHeaders(noHdr, nv) == noHdr \/ ~isStringArray(nv)

\* the array that is partitioned: the section's list, or the whole tree
refArrayOf(nv, refDictIdx) ==
  IF refDictIdx >= 0 THEN nv[refDictIdx + 1].items ELSE nv

rewriteNavKeepingOld(nv, refDictIdx, usesHeaders, nonRefFilepaths, newRef) ==
  IF usesHeaders
  THEN IF refDictIdx >= 0
       THEN [nv EXCEPT ![refDictIdx + 1] =
               Section(referenceHeader, refArrayOf(nv, refDictIdx) \o newRef)]
       ELSE nv \o <<Section(referenceHeader, newRef)>>
  ELSE nv \o newRef
\* the rewrite of mkDocsYml.nav when the symmetric difference is not empty
rewriteNav(nv, refDictIdx, usesHeaders, nonRefFilepaths, newRef) ==
  IF usesHeaders
  THEN IF refDictIdx >= 0
       THEN [nv EXCEPT ![refDictIdx + 1] =
               Section(referenceHeader, nonRefFilepaths \o newRef)]
       ELSE nonRefFilepaths \o <<Section(referenceHeader, newRef)>>
  ELSE nonRefFilepaths \o newRef

writeUnlessDryRun(old, new, shouldWriteMkDocsYml, dryRun) ==
  IF shouldWriteMkDocsYml /\ ~dryRun
  THEN [nav |-> new, wrote |-> TRUE]
  ELSE [nav |-> old, wrote |-> FALSE]
\* the final step: safeWriteFile when shouldWriteMkDocsYml; dryRun is not read
writeMkDocsYml(old, new, shouldWriteMkDocsYml, dryRun) ==
  IF shouldWriteMkDocsYml
  THEN [nav |-> new, wrote |-> TRUE]
  ELSE [nav |-> old, wrote |-> FALSE]

\* updateNav up to the final step: whether the early return is taken (warned),
\* shouldWriteMkDocsYml and the document in memory
reconcile(nv, ents, docs, out, noHdr) ==
  IF Len(ents) = 0
  THEN [warned |-> TRUE, shouldWriteMkDocsYml |-> FALSE, nav |-> nv]
  ELSE
    LET newRef == newRefFilepaths(ents, docs, out)
        refDictIdx == findRefDictIndex(nv)
        parts == partitionRefArray(refArrayOf(nv, refDictIdx), relReferenceDir(docs, out))
        symmetricDiff == xor(newRef, parts[1])
    IN IF Len(symmetricDiff) # 0
       THEN [warned |-> FALSE, shouldWriteMkDocsYml |-> TRUE,
             nav |-> rewriteNav(nv, refDictIdx, navUsesHeaders(noHdr, nv), parts[2], newRef)]
       ELSE [warned |-> FALSE, shouldWriteMkDocsYml |-> FALSE, nav |-> nv]

----------------------------------------------------------------------------
(* The inputs of the model *)

\* <<mkDocsDocsDir, typeDocOutDir>>: the output directory inside the docs
\* directory, beside it, equal to it, and the docs directory being <out>/commands
Placements ==
  { << <<"p", "docs">>, <<"p", "docs", "ref">> >>,
    << <<"p", "docs">>, <<"p", "out">> >>,
    << <<"p", "docs">>, <<"p", "docs">> >>,
    << <<"p", "commands">>, <<"p">> >> }

SeqsUpTo(S, n) == UNION {[1..k -> S] : k \in 0..n}

\* what fs.readdir(commandDir, {withFileTypes: true}) may yield: nothing,
\* Markdown files in either order, and entries that are no Markdown file,
\* alone and beside one
Listings ==
  LET a == [name |-> "a.md", isFile |-> TRUE]
      b == [name |-> "b.md", isFile |-> TRUE]
      t == [name |-> "notes.txt", isFile |-> TRUE]
      d == [name |-> "img.md", isFile |-> FALSE]
  IN {<<>>, <<a>>, <<a, b>>, <<b, a>>, <<t>>, <<d>>, <<t, a>>, <<b, d>>}

IntroPage == Str(<<"intro.md">>)

\* the generated page of a file name
RefPage(docs, out, name) == Str(PathJoin(relCommandDir(docs, out), name))

\* the strings a tree may hold: a page outside the reference directory and the
\* generated pages (stale when the listing no longer names them)
Pages(docs, out) == {IntroPage, RefPage(docs, out, "a.md"), RefPage(docs, out, "b.md")}

\* the lists a reference section may hold: empty, one page, two pages in
\* either order, one page twice, and a page outside the reference directory
\* before or after a generated one
ItemLists(docs, out) ==
  LET a == RefPage(docs, out, "a.md")
      b == RefPage(docs, out, "b.md")
  IN {<<>>, <<a>>, <<b>>, <<a, b>>, <<b, a>>, <<a, a>>,
      <<IntroPage, b>>, <<b, IntroPage>>}

Entries(docs, out) ==
  Pages(docs, out)
    \cup {Section(referenceHeader, its) : its \in ItemLists(docs, out)}
    \cup {Section("Guides", <<IntroPage>>)}

Navs(docs, out) == SeqsUpTo(Entries(docs, out), MaxNav)

----------------------------------------------------------------------------
(* The state machine: runs of updateNav on an unchanged filesystem *)

Init ==
  /\ \E pl \in Placements :
       /\ mkDocsDocsDir = pl[1]
       /\ typeDocOutDir = pl[2]
       /\ nav \in Navs(pl[1], pl[2])
  /\ commandDocFileEnts \in Listings
  /\ noReferenceHeader \in BOOLEAN
  /\ runs = 0
  /\ navBefore = nav
  /\ wrote = FALSE
  /\ warned = FALSE
  /\ twinNav = nav
  /\ twinWrote = FALSE

\* one call of updateNav with the given dryRun; twinNav and twinWrote record
\* what the same call does with the other value of dryRun
UpdateNav(dryRun) ==
  /\ runs < MaxRuns
  /\ \E m \in {reconcile(nav, commandDocFileEnts, mkDocsDocsDir, typeDocOutDir,
                            noReferenceHeader)} :
       \E r \in {writeMkDocsYml(nav, m.nav, m.shouldWriteMkDocsYml, dryRun)} :
         \E t \in {writeMkDocsYml(nav, m.nav, m.shouldWriteMkDocsYml, ~dryRun)} :
           /\ nav' = r.nav
           /\ wrote' = r.wrote
           /\ warned' = m.warned
           /\ twinNav' = t.nav
           /\ twinWrote' = t.wrote
  /\ navBefore' = nav
  /\ runs' = runs + 1
  /\ UNCHANGED <<commandDocFileEnts, mkDocsDocsDir, typeDocOutDir, noReferenceHeader>>

Next == \E dryRun \in BOOLEAN : UpdateNav(dryRun)

Spec == Init /\ [][Next]_vars

----------------------------------------------------------------------------
(* The last run, as the claims speak of it *)

SetOf(seq) == {seq[i] : i \in 1..Len(seq)}

Ran == runs > 0

\* the reference-directory prefix of this configuration
RefDir == relReferenceDir(mkDocsDocsDir, typeDocOutDir)

HasRefPrefix(v) == startsWithDir(v, RefDir)

\* D: the discovered list
Discovered == newRefFilepaths(commandDocFileEnts, mkDocsDocsDir, typeDocOutDir)

IsRefSection(v) == isObject(v) /\ has(v, referenceHeader)

\* the 1-based position of the reference section in nv, 0 when there is none
SectionAt(nv) ==
  IF \E i \in 1..Len(nv) : IsRefSection(nv[i])
  THEN CHOOSE i \in 1..Len(nv) :
         IsRefSection(nv[i]) /\ \A j \in 1..(i - 1) : ~IsRefSection(nv[j])
  ELSE 0

\* the sequence the run partitioned, and the sequence that replaced it
Partitioned ==
  IF SectionAt(navBefore) > 0 THEN navBefore[SectionAt(navBefore)].items ELSE navBefore

Rewritten ==
  IF SectionAt(navBefore) > 0 THEN nav[SectionAt(navBefore)].items ELSE nav

\* E: the existing reference list, and the entries that are not reference entries
Existing == SelectSeq(Partitioned, HasRefPrefix)

NonRef == SelectSeq(Partitioned, LAMBDA v : ~HasRefPrefix(v))

NoMarkdownListed ==
  \A i \in 1..Len(commandDocFileEnts) :
    ~(commandDocFileEnts[i].isFile /\ endsWithMd(commandDocFileEnts[i].name))

\* the strings of a tree with the reference prefix, at top level and in its section
RefStringsOf(nv) ==
  {nv[i] : i \in {j \in 1..Len(nv) : HasRefPrefix(nv[j])}}
    \cup (IF SectionAt(nv) > 0
          THEN {v \in SetOf(nv[SectionAt(nv)].items) : HasRefPrefix(v)}
          ELSE {})

----------------------------------------------------------------------------
(* Claims *)

\* C1: a run whose directory listing is not empty writes the document if and
\* only if the symmetric difference of D and E, taken as sets, is not empty;
\* a difference of order or of multiplicity alone causes no write.
C1_WriteIffSetsDiffer ==
  (Ran /\ Len(commandDocFileEnts) > 0) =>
    /\ wrote <=> ((SetOf(Discovered) \ SetOf(Existing))
                    \cup (SetOf(Existing) \ SetOf(Discovered)) # {})
    /\ ~wrote => nav = navBefore

C1_Witness ==
  /\ Ran /\ Len(commandDocFileEnts) > 0 /\ ~wrote
  /\ Discovered # Existing
  /\ SetOf(Discovered) = SetOf(Existing)
  /\ Len(Existing) > 1

\* C2: idempotence, as claimed: with the filesystem unchanged, the second and
\* every later run writes nothing, whatever the tree, the header option and
\* the placement of the output directory.
C2_SecondRunWritesNothing == runs >= 2 => ~wrote

\* C3: early exit, as claimed: a run on a commands directory that lists no
\* Markdown file (it may list other files or directories) performs no write,
\* whatever the tree held.
C3_NoMarkdownNoWrite == (Ran /\ NoMarkdownListed) => ~wrote

\* C4: flat output under noReferenceHeader, as claimed: with the option set and
\* no reference section in the tree, a rewrite yields the non-reference entries
\* followed by the discovered paths as plain strings.
C4_SuppressedHeaderGivesFlatList ==
  (Ran /\ wrote /\ noReferenceHeader /\ SectionAt(navBefore) = 0) =>
    nav = NonRef \o Discovered

\* C5: header-style preservation: a tree of plain strings, rewritten with
\* noReferenceHeader unset, is again a tree of plain strings: the
\* non-reference entries followed by the discovered paths.
C5_FlatStaysFlat ==
  (Ran /\ wrote /\ ~noReferenceHeader /\ \A i \in 1..Len(navBefore) : isString(navBefore[i])) =>
    /\ \A i \in 1..Len(nav) : isString(nav[i])
    /\ nav = NonRef \o Discovered

C5_Witness ==
  /\ Ran /\ wrote /\ ~noReferenceHeader
  /\ \A i \in 1..Len(navBefore) : isString(navBefore[i])
  /\ Len(NonRef) > 0 /\ Len(Existing) > 0 /\ Len(Discovered) > 0

\* C6: order preservation: in every rewrite the non-reference entries of the
\* partitioned sequence open the rewritten sequence, in their order and once
\* each, and what follows them is the discovered list or the new section.
C6_NonRefKeepOrder ==
  (Ran /\ wrote) =>
    /\ Len(Rewritten) >= Len(NonRef)
    /\ SubSeq(Rewritten, 1, Len(NonRef)) = NonRef
    /\ LET rest == SubSeq(Rewritten, Len(NonRef) + 1, Len(Rewritten))
       IN \/ rest = Discovered
          \/ /\ SectionAt(navBefore) = 0
             /\ rest = <<Section(referenceHeader, Discovered)>>

C6_Witness ==
  /\ Ran /\ wrote
  /\ Len(NonRef) > 1 /\ NonRef[1] # NonRef[2]
  /\ Len(Discovered) > 0

\* C7, as claimed: every string with the reference prefix, in the section or
\* at top level, counts as an existing reference entry (so one that is not
\* discovered forces a write), and after a rewrite none that is absent from
\* the discovered list remains at top level or in the section.
C7_EveryRefStringBelongs ==
  (Ran /\ ~warned) =>
    /\ (RefStringsOf(navBefore) \ SetOf(Discovered) # {}) => wrote
    /\ wrote => RefStringsOf(nav) \subseteq SetOf(Discovered)

\* C7, amended: every string with the reference prefix in the partitioned
\* sequence (the section's list when a section is found, else the top level)
\* counts as an existing reference entry, and after a rewrite none that is
\* absent from the discovered list remains in the section, nor at top level
\* when no section was found.
C7_PartitionedRefStringsBelong ==
  (Ran /\ ~warned) =>
    /\ ({v \in SetOf(Partitioned) : HasRefPrefix(v)} \ SetOf(Discovered) # {}) => wrote
    /\ wrote =>
         /\ {v \in SetOf(Rewritten) : HasRefPrefix(v)} \subseteq SetOf(Discovered)
         /\ SectionAt(navBefore) = 0 => RefStringsOf(nav) \subseteq SetOf(Discovered)

\* a stale entry of the section is dropped while a stale top-level string
\* beside the section stays
C7_Witness ==
  /\ Ran /\ wrote /\ SectionAt(navBefore) > 0
  /\ SetOf(Existing) \ SetOf(Discovered) # {}
  /\ \E i \in 1..Len(nav) : HasRefPrefix(nav[i]) /\ nav[i] \notin SetOf(Discovered)

\* C8: with a reference section found, a rewrite replaces the list of that
\* section (the first one) by the non-reference entries followed by the
\* discovered list and leaves every other top-level entry as it was.
C8_OnlyFirstSectionReplaced ==
  (Ran /\ wrote /\ SectionAt(navBefore) > 0) =>
    /\ Len(nav) = Len(navBefore)
    /\ \A j \in 1..Len(nav) :
         nav[j] = IF j = SectionAt(navBefore)
                  THEN Section(referenceHeader, NonRef \o Discovered)
                  ELSE navBefore[j]

C8_Witness ==
  /\ Ran /\ wrote /\ SectionAt(navBefore) > 0
  /\ \E j \in (SectionAt(navBefore) + 1)..Len(navBefore) : IsRefSection(navBefore[j])
  /\ SetOf(Existing) \ SetOf(Discovered) # {}

\* C9, as claimed: wherever the output directory lies, every discovered path
\* starts with the reference-directory prefix followed by "/".
C9_DiscoveredHaveRefPrefix == \A v \in SetOf(Discovered) : HasRefPrefix(v)

\* C10: dryRun changes nothing: the run and the same run with the other value
\* of dryRun agree on whether the document is written and on what it holds.
C10_DryRunIgnored == Ran => (wrote = twinWrote /\ nav = twinNav)

C10_Witness == Ran /\ wrote /\ twinWrote /\ nav # navBefore /\ twinNav = nav

====
